---- MODULE Spec2Model ----
(***************************************************************************)
(* climageproc: a model of src/main.rs.                                    *)
(*                                                                         *)
(* One run of the program is modelled: main dispatches on the input path   *)
(* to process_image (a single file) or to process_directory (a batch over  *)
(* the entries of a directory, fanned out by rayon's par_iter().           *)
(* try_for_each over a bounded worker pool).  process_image is split at    *)
(* its observable effects: decode+transform, create_dir_all, save.         *)
(*                                                                         *)
(* Strings (extensions, format names) are sequences of one-character       *)
(* strings so that to_lowercase is computed, not assumed.  An Option is a  *)
(* set with at most one element.                                           *)
(***************************************************************************)
EXTENDS Integers, Sequences, FiniteSets, TLC

----------------------------------------------------------------------------
(* Bounds of the model *)

\* largest image dimension / requested width or height enumerated
MaxDim == 7
\* size of the rayon worker pool
NumWorkers == 2
\* largest number of entries in the input directory
MaxEntries == 3

----------------------------------------------------------------------------
(* Strings *)

\* str::to_lowercase on one character (the letters the model uses)
LowerChar(c) ==
  CASE c = "J" -> "j"
    [] c = "P" -> "p"
    [] c = "G" -> "g"
    [] c = "N" -> "n"
    [] c = "B" -> "b"
    [] c = "M" -> "m"
    [] OTHER -> c

to_lowercase(s) == [i \in DOMAIN s |-> LowerChar(s[i])]

JPG  == <<"j", "p", "g">>
JPEG == <<"j", "p", "e", "g">>
PNG  == <<"p", "n", "g">>
GIF  == <<"g", "i", "f">>
WEBP == <<"w", "e", "b", "p">>

\* the extensions matched at line 108 and the names matched at lines 86-89
SupportedNames == {JPG, JPEG, PNG, GIF, WEBP}

\* Path::extension() as an Option: the empty sequence stands for "no extension"
extension(name) == IF name.ext = <<>> THEN {} ELSE {name.ext}

\* the filter closure of process_directory: only the extension is looked at
IsEligible(e) ==
  \E ext \in extension(e.name) : to_lowercase(ext) \in SupportedNames

\* the format match of process_image (Convert)
resolve_format(format) ==
  LET f == to_lowercase(format) IN
  IF f \in {JPG, JPEG} THEN {"Jpeg"}
  ELSE IF f = PNG THEN {"Png"}
  ELSE IF f = GIF THEN {"Gif"}
  ELSE IF f = WEBP THEN {"WebP"}
  ELSE {}

\* DynamicImage::save: the format is inferred from the extension of the path
format_from_path(path) ==
  IF \E ext \in extension(path) : to_lowercase(ext) \in SupportedNames
  THEN {"inferred"} ELSE {}

----------------------------------------------------------------------------
(* f32 arithmetic on positive values: a value is m / 2^k with m below 2^24 *)
(* times a power of two, as an IEEE single holds it.                       *)

Pow2(n) == 2 ^ n

\* the element of a one-element set; { f(x) : x \in {v} } names v once, so a
\* value that is used several times is computed once
The(S) == CHOOSE x \in S : TRUE

\* n / d rounded to the nearest integer, ties to even (the IEEE default)
RoundNearestEven(n, d) ==
  The({ IF 2 * r < d THEN n \div d
        ELSE IF 2 * r > d THEN (n \div d) + 1
        ELSE IF (n \div d) % 2 = 0 THEN n \div d ELSE (n \div d) + 1
        : r \in {n % d} })

\* the least k with 2^k >= x
Log2Ceil(x) == CHOOSE k \in 0..30 : Pow2(k) >= x /\ (k = 0 \/ Pow2(k - 1) < x)

\* the least k with a * 2^k >= 2^23 * b: the binary exponent of a / b
NormShift(a, b) == Log2Ceil((Pow2(23) * b + a - 1) \div a)

\* a as f32 / b as f32, for small positive integers (exactly representable):
\* the quotient m / 2^k, m rounded to 24 bits
F32Div(a, b) ==
  The({ [m |-> RoundNearestEven(a * Pow2(k), b), k |-> k] : k \in {NormShift(a, b)} })

\* the least s with p < 2^(24+s): the bits a 24-bit significand must drop
DropShift(p) == CHOOSE s \in 0..6 : p < Pow2(24 + s) /\ (s = 0 \/ p >= Pow2(23 + s))

\* p / 2^k rounded to f32
F32(p, k) ==
  The({ [m |-> RoundNearestEven(p, Pow2(s)) * Pow2(s), k |-> k] : s \in {DropShift(p)} })

\* w as f32 * x, rounded to f32
F32Mul(w, x) == The({ F32(w * v.m, v.k) : v \in {x} })

\* f32::round (half away from zero) followed by `as u32`, for x >= 0
F32Round(x) == The({ (2 * v.m + Pow2(v.k)) \div Pow2(v.k + 1) : v \in {x} })

\* the mathematical round(n / d), half away from zero, for n >= 0, d > 0
RoundDiv(n, d) == (2 * n + d) \div (2 * d)

Max(a, b) == IF a >= b THEN a ELSE b

\* image::math::resize_dimensions(width, height, nwidth, nheight, fill = false):
\* the largest size of the source's aspect ratio that fits in nwidth x nheight,
\* each side at least 1.  ratio = min(nwidth/width, nheight/height); the f64
\* products are taken exactly (every value here is far below 2^53).
resize_dimensions(width, height, nwidth, nheight) ==
  IF nwidth * height <= nheight * width
  THEN <<Max(RoundDiv(width * nwidth, width), 1),
         Max(RoundDiv(height * nwidth, width), 1)>>
  ELSE <<Max(RoundDiv(width * nheight, height), 1),
         Max(RoundDiv(height * nheight, height), 1)>>

\* DynamicImage::resize_exact
resize_exact(dim, w, h) == <<w, h>>

\* DynamicImage::resize: fit within w x h, keep the aspect ratio
resize(dim, w, h) ==
  The({ resize_exact(dim, d[1], d[2]) :
          d \in {resize_dimensions(dim[1], dim[2], w, h)} })

\* the height computed at lines 63-64
HeightFor(dim, w) == F32Round(F32Mul(w, F32Div(dim[2], dim[1])))
\* the width computed at lines 68-69
WidthFor(dim, h) == F32Round(F32Mul(h, F32Div(dim[1], dim[2])))

\* the `match command` of process_image, lines 57-76: the size of processed_img
Transform(dim, cmd) ==
  IF cmd.op = "Resize"
  THEN IF cmd.width # {} /\ cmd.height # {}
       THEN The({ resize_exact(dim, w, h) : w \in cmd.width, h \in cmd.height })
       ELSE IF cmd.width # {}
       THEN The({ The({ resize(dim, w, h) : h \in {HeightFor(dim, w)} })
                  : w \in cmd.width })
       ELSE IF cmd.height # {}
       THEN The({ The({ resize(dim, w, h) : w \in {WidthFor(dim, h)} })
                  : h \in cmd.height })
       ELSE dim
  ELSE dim

----------------------------------------------------------------------------
(* Inputs *)

None == <<>>

Name(stem, ext) == [stem |-> stem, ext |-> ext]

Entry(stem, ext, kind, valid, dim) ==
  [name |-> Name(stem, ext), kind |-> kind, valid |-> valid, dim |-> dim]

\* what an input directory may hold: decodable images (one of them with an
\* upper-case extension, two of them sharing a stem), a corrupt image, a text
\* file, a subdirectory whose name ends in .png and a plain subdirectory
Universe ==
  { Entry("a", PNG, "file", TRUE, <<7, 3>>),
    Entry("a", JPG, "file", TRUE, <<4, 4>>),
    Entry("b", <<"P", "N", "G">>, "file", TRUE, <<2, 5>>),
    Entry("e", GIF, "file", FALSE, <<1, 1>>),
    Entry("c", <<"t", "x", "t">>, "file", FALSE, <<1, 1>>),
    Entry("d", PNG, "dir", FALSE, <<1, 1>>),
    Entry("sub", <<>>, "dir", FALSE, <<1, 1>>) }

Directories == {d \in SUBSET Universe : Cardinality(d) <= MaxEntries}

\* a single input path: a decodable image of any size, a corrupt file, or a
\* path that does not exist
SingleInputs ==
  { Entry("in", PNG, "file", TRUE, <<w, h>>) : w \in 1..MaxDim, h \in 1..MaxDim }
  \cup { Entry("in", PNG, "file", FALSE, <<1, 1>>),
         Entry("in", PNG, "missing", FALSE, <<1, 1>>) }

Option(S) == {{}} \cup {{x} : x \in S}

ResizeCmd(w, h) == [op |-> "Resize", width |-> w, height |-> h, format |-> None]
ConvertCmd(f)   == [op |-> "Convert", width |-> {}, height |-> {}, format |-> f]

Formats == {PNG, <<"J", "P", "G">>, <<"b", "m", "p">>}

SingleCommands ==
  { ResizeCmd(w, h) : w \in Option(1..MaxDim), h \in Option(1..MaxDim) }
  \cup { ConvertCmd(f) : f \in Formats }

BatchCommands ==
  { ResizeCmd({3}, {}), ResizeCmd({}, {}) } \cup { ConvertCmd(f) : f \in Formats }

\* --output of a single-file run: a full file path
SingleOutputs == { Name("out", PNG), Name("out", <<"t", "x", "t">>) }
\* --output of a batch run: a directory
OutputDir == Name("outdir", <<>>)

----------------------------------------------------------------------------
(* State *)

VARIABLES
  input,         \* --input: [is_dir, items]; items is the listing of the
                 \* directory, or the one file the path names
  output,        \* --output
  command,       \* the parsed subcommand
  pcMain,        \* where main / process_directory stands
  entries,       \* the Vec collected at lines 103-111 (file names are unique
                 \* and its order is never used, so it is held as a set)
  st,            \* per item: where its process_image call stands
  result,        \* per item: what its process_image call returned
  calls,         \* per item: how many times process_image was entered
  log,           \* per item: the steps of process_image that completed
  img,           \* per item: the size of processed_img
  full,          \* rayon's short-circuit flag of try_for_each
  progress_bar,  \* [len, pos] of the ProgressBar
  dirExists,     \* whether the output directory (batch) / the parent of the
                 \* output path (single) exists
  outFiles,      \* the files in that directory
  ret            \* what the run returned

vars == <<input, output, command, pcMain, entries, st, result, calls, log, img,
          full, progress_bar, dirExists, outFiles, ret>>

NoRet == [kind |-> "none", file |-> {}]

Init ==
  /\ input \in { [is_dir |-> TRUE, items |-> d] : d \in Directories }
         \cup { [is_dir |-> FALSE, items |-> {f}] : f \in SingleInputs }
  /\ command \in IF input.is_dir THEN BatchCommands ELSE SingleCommands
  /\ output \in IF input.is_dir THEN {OutputDir} ELSE SingleOutputs
  /\ dirExists \in BOOLEAN
  /\ outFiles = {}
  /\ pcMain = "main"
  /\ entries = {}
  /\ st = [e \in input.items |-> "idle"]
  /\ result = [e \in input.items |-> "none"]
  /\ calls = [e \in input.items |-> 0]
  /\ log = [e \in input.items |-> <<>>]
  /\ img = [e \in input.items |-> None]
  /\ full = FALSE
  /\ progress_bar = [len |-> 0, pos |-> 0]
  /\ ret = NoRet

----------------------------------------------------------------------------
(* process_image *)

\* lines 121-128: output / file_name, the extension replaced by the raw format
\* string for Convert; a single-file run passes --output as it is (line 147)
output_path(e) ==
  IF input.is_dir
  THEN IF command.op = "Convert"
       THEN Name(e.name.stem, command.format)
       ELSE e.name
  ELSE output

InFlight == {e \in input.items : st[e] \in {"decode", "mkdir", "save", "inc"}}

\* process_image returns r for item e
Returns(e, r) ==
  /\ st' = [st EXCEPT ![e] = "inc"]
  /\ result' = [result EXCEPT ![e] = r]

\* Decode with a fault: the output directory is created before the input is read
Decode_DirFirst(e) ==
  /\ st[e] = "decode"
  /\ dirExists' = TRUE
  /\ IF e.kind = "file" /\ e.valid
     THEN /\ img' = [img EXCEPT ![e] = Transform(e.dim, command)]
          /\ log' = [log EXCEPT ![e] = @ \o <<"decode", "transform">>]
          /\ st' = [st EXCEPT ![e] = "mkdir"]
          /\ UNCHANGED result
     ELSE /\ Returns(e, "DecodeError")
          /\ UNCHANGED <<img, log>>
  /\ UNCHANGED <<input, output, command, pcMain, entries, calls, full,
                 progress_bar, outFiles, ret>>

\* lines 54-76: image::open, then the transform
Decode(e) ==
  /\ st[e] = "decode"
  /\ IF e.kind = "file" /\ e.valid
     THEN /\ img' = [img EXCEPT ![e] = Transform(e.dim, command)]
          /\ log' = [log EXCEPT ![e] = @ \o <<"decode", "transform">>]
          /\ st' = [st EXCEPT ![e] = "mkdir"]
          /\ UNCHANGED result
     ELSE /\ Returns(e, "DecodeError")
          /\ UNCHANGED <<img, log>>
  /\ UNCHANGED <<input, output, command, pcMain, entries, calls, full,
                 progress_bar, dirExists, outFiles, ret>>

\* lines 78-81: create_dir_all(parent)?
Mkdir(e) ==
  /\ st[e] = "mkdir"
  /\ \/ /\ dirExists' = TRUE
        /\ log' = [log EXCEPT ![e] = Append(@, "mkdir")]
        /\ st' = [st EXCEPT ![e] = "save"]
        /\ UNCHANGED result
     \/ /\ ~dirExists
        /\ Returns(e, "IoError")
        /\ UNCHANGED <<dirExists, log>>
  /\ UNCHANGED <<input, output, command, pcMain, entries, calls, img, full,
                 progress_bar, outFiles, ret>>

\* the format save / save_with_format encodes with, as an Option
EncodeFormat(e) ==
  IF command.op = "Convert"
  THEN resolve_format(command.format)
  ELSE format_from_path(output_path(e))

File(e, complete) ==
  [path |-> output_path(e), src |-> e.name, dim |-> img[e], complete |-> complete]

\* File::create truncates: the file at the path is replaced
Written(files, f) == {g \in files : g.path # f.path} \cup {f}

\* lines 83-99: resolve the format, then encode and write
Save(e) ==
  /\ st[e] = "save"
  /\ \/ /\ EncodeFormat(e) = {}
        /\ Returns(e, IF command.op = "Convert" THEN "UnsupportedFormat"
                                                ELSE "SaveError")
        /\ UNCHANGED <<outFiles, log>>
     \/ /\ EncodeFormat(e) # {}
        /\ outFiles' = Written(outFiles, File(e, TRUE))
        /\ log' = [log EXCEPT ![e] = @ \o (IF command.op = "Convert"
                                            THEN <<"resolve", "write">>
                                            ELSE <<"write">>)]
        /\ Returns(e, "Ok")
     \/ /\ EncodeFormat(e) # {}
        /\ \/ outFiles' = Written(outFiles, File(e, FALSE))
           \/ UNCHANGED outFiles
        /\ log' = [log EXCEPT ![e] = @ \o (IF command.op = "Convert"
                                            THEN <<"resolve">> ELSE <<>>)]
        /\ Returns(e, "SaveError")
  /\ UNCHANGED <<input, output, command, pcMain, entries, calls, img, full,
                 progress_bar, dirExists, ret>>

----------------------------------------------------------------------------
(* main and process_directory *)

\* lines 140-149: dispatch on input.is_dir()
Main ==
  /\ pcMain = "main"
  /\ IF input.is_dir
     THEN /\ pcMain' = "read_dir"
          /\ UNCHANGED <<st, calls>>
     ELSE /\ pcMain' = "single"
          /\ st' = [e \in input.items |-> "decode"]
          /\ calls' = [e \in input.items |-> calls[e] + 1]
  /\ UNCHANGED <<input, output, command, entries, result, log, img, full,
                 progress_bar, dirExists, outFiles, ret>>

\* lines 103-118: list and filter the directory, create the progress bar
ReadDir ==
  /\ pcMain = "read_dir"
  /\ \/ /\ entries' = {e \in input.items : IsEligible(e)}
        /\ progress_bar' = [len |-> Cardinality(entries'), pos |-> 0]
        /\ pcMain' = "running"
        /\ UNCHANGED ret
     \/ /\ ret' = [kind |-> "ReadDirError", file |-> {}]
        /\ pcMain' = "returned"
        /\ UNCHANGED <<entries, progress_bar>>
  /\ UNCHANGED <<input, output, command, st, result, calls, log, img, full,
                 dirExists, outFiles>>

\* CanStart with a fault: an entry that was already processed is handed out again
CanStart_Again(e) == e \in entries /\ st[e] \in {"idle", "done"} /\ ~full

\* try_for_each hands an entry to a free worker unless the flag is set; the
\* closure runs lines 121-130 and enters process_image
CanStart(e) == e \in entries /\ st[e] = "idle" /\ ~full

Start(e) ==
  /\ pcMain = "running"
  /\ CanStart(e)
  /\ Cardinality(InFlight) < NumWorkers
  /\ st' = [st EXCEPT ![e] = "decode"]
  /\ calls' = [calls EXCEPT ![e] = @ + 1]
  /\ UNCHANGED <<input, output, command, pcMain, entries, result, log, img,
                 full, progress_bar, dirExists, outFiles, ret>>

\* Inc with a fault: only successful units are counted
Inc_OnlyOk(bar, r) == IF r = "Ok" THEN [bar EXCEPT !.pos = @ + 1] ELSE bar

\* progress_bar.inc(1) at line 131
Inc(bar, r) == [bar EXCEPT !.pos = @ + 1]

\* lines 131-132: count the unit, hand the result to try_for_each
Finish(e) ==
  /\ pcMain = "running"
  /\ st[e] = "inc"
  /\ progress_bar' = Inc(progress_bar, result[e])
  /\ full' = (full \/ result[e] # "Ok")
  /\ st' = [st EXCEPT ![e] = "done"]
  /\ UNCHANGED <<input, output, command, pcMain, entries, result, calls, log,
                 img, dirExists, outFiles, ret>>

Failed == {e \in input.items : st[e] = "done" /\ result[e] # "Ok"}

\* BatchResult with a fault: a failure of a worker is swallowed
BatchResult_Swallow == {[kind |-> "Ok", file |-> {}]}

\* what try_for_each hands back: Ok, or the error of one failed unit
BatchResult ==
  IF Failed = {}
  THEN {[kind |-> "Ok", file |-> {}]}
  ELSE {[kind |-> result[e], file |-> {e.name}] : e \in Failed}

\* CanReturn with a fault: the first failure ends the call without joining
CanReturn_NoJoin == full \/ (InFlight = {} /\ \A e \in entries : ~CanStart(e))

\* try_for_each joins its workers: it returns once nothing is running and
\* nothing more will be started
CanReturn == InFlight = {} /\ \A e \in entries : ~CanStart(e)

\* lines 133-136: the `?` on try_for_each, then finish_with_message and Ok
Return ==
  /\ pcMain = "running"
  /\ CanReturn
  /\ ret' \in BatchResult
  /\ IF ret'.kind = "Ok"
     THEN progress_bar' = [progress_bar EXCEPT !.pos = progress_bar.len]
     ELSE UNCHANGED progress_bar
  /\ pcMain' = "returned"
  /\ UNCHANGED <<input, output, command, entries, st, result, calls, log, img,
                 full, dirExists, outFiles>>

\* line 147: process_image(input, output, cmd)?
SingleReturn ==
  /\ pcMain = "single"
  /\ \E e \in input.items :
       /\ st[e] = "inc"
       /\ st' = [st EXCEPT ![e] = "done"]
       /\ ret' = [kind |-> result[e],
                  file |-> IF result[e] = "Ok" THEN {} ELSE {e.name}]
  /\ pcMain' = "returned"
  /\ UNCHANGED <<input, output, command, entries, result, calls, log, img,
                 full, progress_bar, dirExists, outFiles>>

Next ==
  \/ Main
  \/ ReadDir
  \/ \E e \in input.items : Start(e)
  \/ \E e \in input.items : Decode(e)
  \/ \E e \in input.items : Mkdir(e)
  \/ \E e \in input.items : Save(e)
  \/ \E e \in input.items : Finish(e)
  \/ Return
  \/ SingleReturn

Spec == Init /\ [][Next]_vars

\* rayon's workers and the main thread keep running: no enabled step is
\* postponed forever
FairSpec == Spec /\ WF_vars(Next)

----------------------------------------------------------------------------
(* Properties *)

Returned == pcMain = "returned"
Batch    == input.is_dir
Listed   == Batch /\ pcMain \in {"running", "returned"} /\ ret.kind # "ReadDirError"
Done     == {e \in input.items : st[e] = "done"}
Started  == {e \in input.items : calls[e] > 0}

EncodeFormatKnown == command.op = "Convert" => resolve_format(command.format) # {}

IsPrefix(s, t) == Len(s) <= Len(t) /\ \A i \in 1..Len(s) : s[i] = t[i]
Steps(s) == {s[i] : i \in 1..Len(s)}

\* C1 (as claimed): when a batch run returns, every discovered entry has been
\* passed to process_image exactly once and has a terminal outcome, also when
\* another entry failed (stated here for directories of regular files only).
C1_EveryEntryHasOutcome ==
  (Listed /\ Returned /\ \A e \in entries : e.kind = "file") =>
    \A e \in entries : calls[e] = 1 /\ st[e] = "done" /\ result[e] # "none"

\* C1 (amended): no entry is passed to process_image more than once and only
\* discovered entries are; when a batch run returns, every started entry has
\* exactly one terminal outcome, every entry that was never started has none and
\* the run returned an error, and a run that returns Ok has processed every
\* discovered entry successfully.
C1_AtMostOnceAndStartedHaveOutcome ==
  /\ \A e \in input.items : calls[e] <= 1
  /\ Batch => Started \subseteq entries
  /\ (Listed /\ Returned) =>
       /\ \A e \in entries :
            \/ calls[e] = 1 /\ st[e] = "done" /\ result[e] # "none"
            \/ calls[e] = 0 /\ st[e] = "idle" /\ result[e] = "none"
                 /\ ret.kind \notin {"Ok", "none"}
       /\ ret.kind = "Ok" => \A e \in entries : st[e] = "done" /\ result[e] = "Ok"

\* a batch run has returned an error with one entry failed, one entry
\* processed successfully and one entry never started
C1_Witness ==
  /\ Listed /\ Returned
  /\ \E e \in entries : st[e] = "done" /\ result[e] = "Ok"
  /\ \E e \in entries : st[e] = "done" /\ result[e] # "Ok"
  /\ \E e \in entries : st[e] = "idle"

\* files whose process_image call returned Ok are on disk
NoRollback ==
  \A e \in input.items :
    result[e] = "Ok" => \E f \in outFiles : f.path = output_path(e)

\* C2 (as claimed): a batch run returns an error exactly when a started entry
\* failed, the error is that of one failed entry, and written outputs stay.
C2_ErrorIffSomeEntryFailed ==
  /\ (Batch /\ Returned) =>
       /\ (ret.kind # "Ok") <=> (Failed # {})
       /\ ret.kind # "Ok" =>
            \E e \in Failed : ret = [kind |-> result[e], file |-> {e.name}]
  /\ NoRollback

\* C2 (amended): a batch run returns an error exactly when listing the input
\* directory failed or a started entry failed; the error is the listing error
\* (then no entry was started) or the error of exactly one failed entry; output
\* files written before the return are still present.
C2_ErrorIffListingOrEntryFailed ==
  /\ (Batch /\ Returned) =>
       /\ (ret.kind # "Ok") <=> (ret.kind = "ReadDirError" \/ Failed # {})
       /\ ret.kind = "ReadDirError" => Started = {} /\ entries = {}
       /\ ret.kind \notin {"Ok", "ReadDirError"} =>
            \E e \in Failed : ret = [kind |-> result[e], file |-> {e.name}]
  /\ NoRollback

\* a batch run has returned the DecodeError of a failed entry while the output
\* of another entry is on disk
C2_Witness ==
  /\ Batch /\ Returned
  /\ ret.kind = "DecodeError"
  /\ \E e \in Failed : ret.file = {e.name}
  /\ \E e \in input.items : result[e] = "Ok"
  /\ outFiles # {}

\* C3: in a batch run the progress position equals the number of units that
\* have passed line 131, each counted once whether it succeeded or failed; it
\* lags the number of returned process_image calls by at most the units still
\* between the return and line 131, never exceeds the number of discovered
\* entries, and equals it when the run returns Ok.
C3_ProgressCountsCompletedUnits ==
  Batch =>
    /\ progress_bar.pos = Cardinality(Done)
    /\ progress_bar.pos <= Cardinality(entries)
    /\ progress_bar.len = Cardinality(entries)
    /\ LET returnedCalls == {e \in input.items : result[e] # "none"}
       IN  /\ progress_bar.pos <= Cardinality(returnedCalls)
           /\ Cardinality(returnedCalls) <= progress_bar.pos + NumWorkers
    /\ (Returned /\ ret.kind = "Ok") => progress_bar.pos = Cardinality(entries)

\* two units have been counted, one that failed and one that succeeded, while
\* the batch is still running
C3_Witness ==
  /\ Batch /\ pcMain = "running"
  /\ progress_bar.pos = 2
  /\ \E e \in Done : result[e] = "Ok"
  /\ \E e \in Done : result[e] # "Ok"

\* C4 (as claimed): only regular files with a supported extension are ever
\* processed, and a batch resize that succeeds for all N selected entries
\* leaves exactly N output files, one per entry under its base name.
C4_OnlyImageFilesProcessed ==
  Batch =>
    /\ \A e \in Started : e.kind = "file" /\ IsEligible(e)
    /\ \A e \in input.items : (e.kind = "file" /\ IsEligible(e)) => (Listed => e \in entries)
    /\ (Returned /\ ret.kind = "Ok" /\ command.op = "Resize") =>
         /\ Cardinality(outFiles) = Cardinality(entries)
         /\ {f.path : f \in outFiles} = {e.name : e \in entries}

\* C5 (as claimed): a resize with only width = w of a W x H image yields an
\* image of width exactly w and height round(w * H / W) (stated here for the
\* cases where that height is at least 1).
C5_WidthOnlyResize ==
  \A e \in input.items :
    (command.op = "Resize" /\ command.height = {} /\ img[e] # None) =>
      \A w \in command.width :
        RoundDiv(w * e.dim[2], e.dim[1]) >= 1 =>
          img[e] = <<w, RoundDiv(w * e.dim[2], e.dim[1])>>

\* C6 (as claimed): a convert to a format outside jpg, jpeg, png, gif, webp of
\* a readable image fails with the unsupported-format error and leaves no
\* output file; the check precedes any write.
C6_UnsupportedFormatRejected ==
  (command.op = "Convert" /\ to_lowercase(command.format) \notin SupportedNames) =>
    /\ outFiles = {}
    /\ \A e \in input.items :
         (e.kind = "file" /\ e.valid /\ result[e] # "none") =>
           result[e] = "UnsupportedFormat" /\ "write" \notin Steps(log[e])

\* C7 (as claimed): after a run the output directory exists (stated here for
\* the runs that return Ok).
C7_OutputDirExistsAfterRun ==
  (Returned /\ ret.kind = "Ok") => dirExists

\* when a batch run has returned no worker is inside a unit
C8_Quiescent ==
  (Batch /\ Returned) =>
    /\ InFlight = {}
    /\ \A e \in Started : st[e] = "done" /\ result[e] # "none"
    /\ \A e \in input.items \ Started : st[e] = "idle" /\ result[e] = "none"
    /\ (Listed /\ ret.kind # "Ok") => progress_bar.pos = Cardinality(Started)

\* C8: a batch run returns only when no worker is inside a unit: every entry
\* that was started, also one started before a failure was observed, has its
\* outcome and has been counted, entries that were not started are left as they
\* were; and every run eventually returns.
C8_InFlightWorkCompletes == []C8_Quiescent /\ <>Returned

\* a failure has been observed while another unit is still being saved and a
\* third has not been started
C8_Witness ==
  /\ Batch /\ pcMain = "running" /\ full
  /\ \E e \in entries : st[e] = "save"
  /\ \E e \in entries : st[e] = "idle"

\* C9 (as claimed): distinct discovered entries have distinct output paths, so
\* no two workers are ever writing the same output file at once (stated here
\* for two entries that are both at their save, the format being supported).
C9_DistinctOutputPaths ==
  (Batch /\ EncodeFormatKnown) =>
    \A e1, e2 \in entries :
      (e1 # e2 /\ st[e1] = "save" /\ st[e2] = "save") =>
        output_path(e1) # output_path(e2)

\* the order of the steps of process_image
StepOrder ==
  IF command.op = "Convert"
  THEN <<"decode", "transform", "mkdir", "resolve", "write">>
  ELSE <<"decode", "transform", "mkdir", "write">>

C10_Order ==
  /\ \A e \in input.items :
       /\ IsPrefix(log[e], StepOrder)
       /\ result[e] = "Ok" <=> log[e] = StepOrder
       /\ result[e] = "DecodeError" =>
            /\ log[e] = <<>>
            /\ \A f \in outFiles : f.src # e.name
  /\ \A f \in outFiles :
       /\ dirExists
       /\ \E e \in input.items :
            /\ f.src = e.name
            /\ IsPrefix(SubSeq(StepOrder, 1, Len(StepOrder) - 1), log[e])
  /\ (~Batch /\ \E e \in input.items : result[e] = "DecodeError") => outFiles = {}

C10_DecodeFailureStep ==
  \A e \in input.items :
    (st[e] = "decode" /\ result'[e] = "DecodeError") =>
      UNCHANGED <<dirExists, outFiles>>

\* C10: process_image completes its steps in the order decode, transform,
\* create parent directory, resolve format (Convert only), write; a call whose
\* decode fails changes neither the directory nor the files; a file is on disk
\* only after decode, directory creation and format resolution succeeded.
C10_StepsInOrder == []C10_Order /\ [][C10_DecodeFailureStep]_vars

\* in one convert batch an entry has failed to decode, leaving no trace, and
\* another entry has gone through every step and written its file
C10_Witness ==
  /\ Batch /\ command.op = "Convert"
  /\ \E e \in input.items : result[e] = "DecodeError" /\ log[e] = <<>>
  /\ \E e \in input.items :
       log[e] = StepOrder /\ \E f \in outFiles : f.src = e.name /\ f.complete

====
